---- MODULE Spec2Model ----
(***************************************************************************)
(* Model of scripts/gantt.py: a single rendering pass that builds a plotly *)
(* figure from a task table and a milestone table and exports it twice.    *)
(*                                                                         *)
(* Horizontal coordinates in the script are multiples of 0.5 week.  They   *)
(* are kept here as integers counting HALF WEEKS (value * 2), so that      *)
(* "start - 0.5" is 2*start - 1 and the axis range [0.5, 7] is <<1, 14>>.  *)
(* Week numbers (Start_Week, Duration, tickvals) are kept in weeks.        *)
(* Vertical coordinates of markers and annotations are the 0-based serial  *)
(* numbers the script passes.                                              *)
(***************************************************************************)
EXTENDS Integers, Sequences, FiniteSets, TLC

VARIABLES pc, i, data, annotations, layout, legend_added, task_positions,
          preexisting, written, stdout, failed_at, error

vars == <<pc, i, data, annotations, layout, legend_added, task_positions,
          preexisting, written, stdout, failed_at, error>>

(***************************************************************************)
(* The static tables                                                       *)
(***************************************************************************)
tasks_data ==
  << [Task |-> "Village Render",  Start_Week |-> 1, Duration |-> 1, Type |-> "Frontend"],
     [Task |-> "RPG Dialogue",    Start_Week |-> 2, Duration |-> 1, Type |-> "Frontend"],
     [Task |-> "MCP Integration", Start_Week |-> 3, Duration |-> 1, Type |-> "Backend"],
     [Task |-> "Bug Bot System",  Start_Week |-> 4, Duration |-> 1, Type |-> "Backend"],
     [Task |-> "Performance",     Start_Week |-> 5, Duration |-> 1, Type |-> "DevOps"],
     [Task |-> "Test & Launch",   Start_Week |-> 6, Duration |-> 1, Type |-> "Testing"] >>

\* df = pd.DataFrame(tasks_data): the rows of the frame, in table order
df == tasks_data

color_map_merged ==
  [c \in {"Frontend", "Backend", "DevOps", "Testing"} |->
     CASE c = "Frontend" -> "#2E8B57"
       [] c = "Backend"  -> "#1FB8CD"
       [] c = "DevOps"   -> "#1FB8CD"
       [] c = "Testing"  -> "#944454"]

color_map ==
  [c \in {"Frontend", "Backend", "DevOps", "Testing"} |->
     CASE c = "Frontend" -> "#2E8B57"
       [] c = "Backend"  -> "#1FB8CD"
       [] c = "DevOps"   -> "#D2BA4C"
       [] c = "Testing"  -> "#944454"]

\* week is in half weeks: 2.5 -> 5, 4.5 -> 9, 6.5 -> 13
milestones_unknown_task ==
  << [week |-> 5,  task |-> "RPG Dialogue",   label |-> "Core UI Done"],
     [week |-> 9,  task |-> "Bug Bot",        label |-> "Full Integr'n"],
     [week |-> 13, task |-> "Test & Launch",  label |-> "MVP Ready"] >>

milestones ==
  << [week |-> 5,  task |-> "RPG Dialogue",   label |-> "Core UI Done"],
     [week |-> 9,  task |-> "Bug Bot System", label |-> "Full Integr'n"],
     [week |-> 13, task |-> "Test & Launch",  label |-> "MVP Ready"] >>

PNG == "gantt_chart.png"
SVG == "gantt_chart.svg"
SavedMessage == "Saved gantt_chart.png and gantt_chart.svg"

(***************************************************************************)
(* Helpers                                                                 *)
(***************************************************************************)
RECURSIVE Reverse(_)
Reverse(s) == IF s = <<>> THEN <<>> ELSE Append(Reverse(Tail(s)), Head(s))

\* df['Task'].tolist()
TaskNames == [k \in 1..Len(df) |-> df[k].Task]

\* go.Bar(...) of the bar loop; cliponaxis is plotly's unset default (on)
Bar_no_offset(row) ==
  [type |-> "bar", x |-> 2 * row.Duration, y |-> row.Task,
   marker_color |-> color_map[row.Type], name |-> row.Type,
   legendgroup |-> row.Type, showlegend |-> TRUE,
   base |-> 2 * row.Start_Week, cliponaxis |-> TRUE]

Bar_type_label(row) ==
  [type |-> "bar", x |-> 2 * row.Duration, y |-> row.Type,
   marker_color |-> color_map[row.Type], name |-> row.Type,
   legendgroup |-> row.Type, showlegend |-> TRUE,
   base |-> 2 * row.Start_Week - 1, cliponaxis |-> TRUE]

Bar(row) ==
  [type |-> "bar", x |-> 2 * row.Duration, y |-> row.Task,
   marker_color |-> color_map[row.Type], name |-> row.Type,
   legendgroup |-> row.Type, showlegend |-> TRUE,
   base |-> 2 * row.Start_Week - 1, cliponaxis |-> TRUE]

\* go.Scatter(...) of the milestone loop
Scatter(milestone, y_pos) ==
  [type |-> "scatter", x |-> milestone.week, y |-> y_pos,
   text |-> milestone.label, showlegend |-> FALSE, name |-> "Milestone",
   cliponaxis |-> TRUE]

\* {task: i for i, task in enumerate(df['Task'])}: 0-based, a later row with
\* the same name overwrites an earlier one
TaskPositions ==
  [t \in {TaskNames[k] : k \in 1..Len(df)} |->
     (CHOOSE k \in 1..Len(df) :
        /\ TaskNames[k] = t
        /\ \A m \in 1..Len(df) : TaskNames[m] = t => m <= k) - 1]

\* the xaxis argument of update_layout (range in half weeks)
xaxis_short ==
  [tickvals |-> <<1, 2, 3, 4, 5, 6>>, range |-> <<1, 12>>]

xaxis ==
  [tickvals |-> <<1, 2, 3, 4, 5, 6>>, range |-> <<1, 14>>]

\* the yaxis argument of update_layout
yaxis ==
  [categoryorder |-> "array", categoryarray |-> Reverse(TaskNames)]

fig == [data |-> data, annotations |-> annotations, layout |-> layout]

(***************************************************************************)
(* Initial state: tables defined, fig = go.Figure().  The working          *)
(* directory may already hold output files of an earlier run.              *)
(***************************************************************************)
Init ==
  /\ pc = "bars"
  /\ i = 1
  /\ data = <<>>
  /\ annotations = <<>>
  /\ layout = [set |-> FALSE]
  /\ legend_added = {}
  /\ task_positions = <<>>
  /\ preexisting \in SUBSET {PNG, SVG}
  /\ written = <<>>
  /\ stdout = <<>>
  /\ failed_at = "none"
  /\ error = "none"

Fail(kind) ==
  /\ pc' = "failed"
  /\ failed_at' = pc
  /\ error' = kind

(***************************************************************************)
(* for _, row in df.iterrows(): fig.add_trace(go.Bar(...))                 *)
(***************************************************************************)
AddBar ==
  /\ pc = "bars"
  /\ IF i <= Len(df)
     THEN IF df[i].Type \in DOMAIN color_map
          THEN /\ data' = Append(data, Bar(df[i]))
               /\ i' = i + 1
               /\ UNCHANGED <<pc, failed_at, error>>
          ELSE /\ Fail("KeyError")
               /\ UNCHANGED <<data, i>>
     ELSE /\ pc' = "legend"
          /\ i' = 1
          /\ UNCHANGED <<data, failed_at, error>>
  /\ UNCHANGED <<annotations, layout, legend_added, task_positions,
                 preexisting, written, stdout>>

(***************************************************************************)
(* legend_added = set(); for trace in fig.data: hide repeated names        *)
(***************************************************************************)
DedupLegend_never_hides ==
  /\ pc = "legend"
  /\ IF i <= Len(data)
     THEN /\ legend_added' = legend_added \cup {data[i].name}
          /\ i' = i + 1
          /\ UNCHANGED <<pc, task_positions, data>>
     ELSE /\ pc' = "milestones"
          /\ i' = 1
          /\ task_positions' = TaskPositions
          /\ UNCHANGED <<data, legend_added>>
  /\ UNCHANGED <<annotations, layout, preexisting, written, stdout,
                 failed_at, error>>

\* The loop's exit falls through to the task_positions comprehension, which
\* has no lookup and no library call of its own.
DedupLegend ==
  /\ pc = "legend"
  /\ IF i <= Len(data)
     THEN /\ IF data[i].name \in legend_added
             THEN /\ data' = [data EXCEPT ![i].showlegend = FALSE]
                  /\ UNCHANGED legend_added
             ELSE /\ legend_added' = legend_added \cup {data[i].name}
                  /\ UNCHANGED data
          /\ i' = i + 1
          /\ UNCHANGED <<pc, task_positions>>
     ELSE /\ pc' = "milestones"
          /\ i' = 1
          /\ task_positions' = TaskPositions
          /\ UNCHANGED <<data, legend_added>>
  /\ UNCHANGED <<annotations, layout, preexisting, written, stdout,
                 failed_at, error>>

(***************************************************************************)
(* for milestone in milestones: fig.add_trace(go.Scatter(...))             *)
(***************************************************************************)
AddMilestone ==
  /\ pc = "milestones"
  /\ IF i <= Len(milestones)
     THEN IF milestones[i].task \in DOMAIN task_positions
          THEN /\ data' = Append(data, Scatter(milestones[i],
                                               task_positions[milestones[i].task]))
               /\ i' = i + 1
               /\ UNCHANGED <<pc, failed_at, error>>
          ELSE /\ Fail("KeyError")
               /\ UNCHANGED <<data, i>>
     ELSE /\ pc' = "arrows"
          /\ i' = 0
          /\ UNCHANGED <<data, failed_at, error>>
  /\ UNCHANGED <<annotations, layout, legend_added, task_positions,
                 preexisting, written, stdout>>

(***************************************************************************)
(* for i in range(len(df) - 1): fig.add_annotation(...)                    *)
(* Here i is the script's 0-based i; df.iloc[i] is df[i + 1].              *)
(***************************************************************************)
Annotation(k) ==
  [x  |-> 2 * df[k + 2].Start_Week - 1,
   y  |-> k + 1,
   ax |-> 2 * df[k + 1].Start_Week + 2 * df[k + 1].Duration - 1,
   ay |-> k]

AddArrow ==
  /\ pc = "arrows"
  /\ IF i < Len(df) - 1
     THEN /\ annotations' = Append(annotations, Annotation(i))
          /\ i' = i + 1
          /\ UNCHANGED pc
     ELSE /\ pc' = "update_layout"
          /\ UNCHANGED <<annotations, i>>
  /\ UNCHANGED <<data, layout, legend_added, task_positions, preexisting,
                 written, stdout, failed_at, error>>

(***************************************************************************)
(* fig.update_layout(...) and fig.update_traces(cliponaxis=False)          *)
(***************************************************************************)
UpdateLayout ==
  /\ pc = "update_layout"
  /\ layout' = [set |-> TRUE, xaxis |-> xaxis, yaxis |-> yaxis,
                barmode |-> "overlay"]
  /\ pc' = "update_traces"
  /\ UNCHANGED <<i, data, annotations, legend_added, task_positions,
                 preexisting, written, stdout, failed_at, error>>

UpdateTraces ==
  /\ pc = "update_traces"
  /\ data' = [k \in 1..Len(data) |-> [data[k] EXCEPT !.cliponaxis = FALSE]]
  /\ pc' = "write_png"
  /\ UNCHANGED <<i, annotations, layout, legend_added, task_positions,
                 preexisting, written, stdout, failed_at, error>>

(***************************************************************************)
(* fig.write_image("gantt_chart.png"); fig.write_image("gantt_chart.svg"); *)
(* print(...)                                                              *)
(***************************************************************************)
WritePng_not_written ==
  /\ pc = "write_png"
  /\ pc' = "write_svg"
  /\ UNCHANGED <<i, data, annotations, layout, legend_added, task_positions,
                 preexisting, written, stdout, failed_at, error>>

WritePng ==
  /\ pc = "write_png"
  /\ written' = Append(written, [file |-> PNG, fig |-> fig])
  /\ pc' = "write_svg"
  /\ UNCHANGED <<i, data, annotations, layout, legend_added, task_positions,
                 preexisting, stdout, failed_at, error>>

WriteSvg ==
  /\ pc = "write_svg"
  /\ written' = Append(written, [file |-> SVG, fig |-> fig])
  /\ pc' = "print"
  /\ UNCHANGED <<i, data, annotations, layout, legend_added, task_positions,
                 preexisting, stdout, failed_at, error>>

PrintSaved ==
  /\ pc = "print"
  /\ stdout' = Append(stdout, SavedMessage)
  /\ pc' = "done"
  /\ UNCHANGED <<i, data, annotations, layout, legend_added, task_positions,
                 preexisting, written, failed_at, error>>

(***************************************************************************)
(* A library call raises (missing rendering backend, unwritable            *)
(* directory, ...).  The script has no try/except, so the exception ends   *)
(* the process at the statement that raised it.                            *)
(***************************************************************************)
Raise_swallowed ==
  /\ pc \notin {"done", "failed"}
  /\ failed_at = "none"
  /\ failed_at' = pc
  /\ error' = "Exception"
  /\ UNCHANGED <<pc, i, data, annotations, layout, legend_added,
                 task_positions, preexisting, written, stdout>>

Raise ==
  /\ pc \notin {"done", "failed"}
  /\ Fail("Exception")
  /\ UNCHANGED <<i, data, annotations, layout, legend_added, task_positions,
                 preexisting, written, stdout>>

Next ==
  \/ AddBar
  \/ DedupLegend
  \/ AddMilestone
  \/ AddArrow
  \/ UpdateLayout
  \/ UpdateTraces
  \/ WritePng
  \/ WriteSvg
  \/ PrintSaved
  \/ Raise

Spec == Init /\ [][Next]_vars

(***************************************************************************)
(* Reading the figure                                                      *)
(***************************************************************************)
\* The statement the run has reached, also once it has failed there
Phase == IF pc = "failed" THEN failed_at ELSE pc

ExportPhases == {"write_png", "write_svg", "print", "done"}

Bars == SelectSeq(data, LAMBDA t : t.type = "bar")
Markers == SelectSeq(data, LAMBDA t : t.type = "scatter")

\* Serial number (from 0) of a category on the y axis: with
\* categoryorder="array" the rows follow categoryarray
CategoryPosition(name) ==
  (CHOOSE k \in 1..Len(layout.yaxis.categoryarray) :
     layout.yaxis.categoryarray[k] = name) - 1

\* Week w occupies [w - 0.5, w + 0.5], i.e. [2w - 1, 2w + 1] in half weeks
WeekCandidates == 0..(2 * Len(tasks_data) + 2)
WeeksInside(b) ==
  {w \in WeekCandidates : 2 * w - 1 >= b.base /\ 2 * w + 1 <= b.base + b.x}
WeeksTouched(b) ==
  {w \in WeekCandidates : 2 * w - 1 < b.base + b.x /\ 2 * w + 1 > b.base}

CategoriesInUse == {tasks_data[k].Type : k \in 1..Len(tasks_data)}
FirstOfCategory(c) ==
  CHOOSE k \in 1..Len(tasks_data) :
    /\ tasks_data[k].Type = c
    /\ \A m \in 1..Len(tasks_data) : tasks_data[m].Type = c => k <= m

(***************************************************************************)
(* C1: once the bar loop is over, and so at the export step, the figure    *)
(* holds exactly one bar per task, in task-table order, each labelled with *)
(* its task's name; no later step adds or removes a bar.                   *)
(***************************************************************************)
C1_OneBarPerTask ==
  Phase # "bars" =>
    /\ Len(Bars) = Len(tasks_data)
    /\ \A k \in 1..Len(tasks_data) :
         /\ data[k].type = "bar"
         /\ Bars[k].y = tasks_data[k].Task

C1_Witness ==
  /\ pc = "write_png"
  /\ Len(Bars) = Len(tasks_data)
  /\ Len(data) > Len(Bars)
  /\ annotations # <<>>

(***************************************************************************)
(* C2: every bar has the colour color_map gives to its task's category,    *)
(* and two bars share a colour exactly when their tasks share a category.  *)
(***************************************************************************)
C2_ColourPerCategory ==
  /\ \A k \in 1..Len(Bars) :
       /\ tasks_data[k].Type \in {"Frontend", "Backend", "DevOps", "Testing"}
       /\ Bars[k].marker_color = color_map[tasks_data[k].Type]
  /\ \A k, m \in 1..Len(Bars) :
       (Bars[k].marker_color = Bars[m].marker_color)
         <=> (tasks_data[k].Type = tasks_data[m].Type)

C2_Witness ==
  /\ pc = "done"
  /\ \E k, m \in 1..Len(Bars) :
       k # m /\ Bars[k].marker_color = Bars[m].marker_color
  /\ Cardinality({Bars[k].marker_color : k \in 1..Len(Bars)}) = 4

(***************************************************************************)
(* C3.  As stated: a completed run wrote gantt_chart.png then              *)
(* gantt_chart.svg, once each, both from the same final figure, the        *)
(* figure does not change once update_layout has run, and the message is   *)
(* printed only after both writes.                                         *)
(***************************************************************************)
ExportOrder ==
  /\ Len(written) <= 2
  /\ Len(written) >= 1 => written[1].file = PNG
  /\ Len(written) = 2 => written[2].file = SVG
  /\ pc = "done" =>
       written = << [file |-> PNG, fig |-> fig], [file |-> SVG, fig |-> fig] >>
  /\ stdout # <<>> => (stdout = <<SavedMessage>> /\ Len(written) = 2)
  /\ pc = "done" => stdout = <<SavedMessage>>

C3_Original ==
  /\ []ExportOrder
  /\ [][(pc \in {"update_traces", "write_png", "write_svg", "print"}) => (fig' = fig)]_vars

(***************************************************************************)
(* C3 amended: the same, except that the figure is final once              *)
(* update_traces has run (update_traces follows update_layout and sets     *)
(* cliponaxis on every trace).                                             *)
(***************************************************************************)
C3_Amended ==
  /\ []ExportOrder
  /\ [][(pc \in {"write_png", "write_svg", "print"}) => (fig' = fig)]_vars

C3_Witness ==
  /\ pc = "done"
  /\ Len(written) = 2
  /\ written[1].fig = written[2].fig
  /\ \A k \in 1..Len(data) : ~data[k].cliponaxis

(***************************************************************************)
(* C4: a failure ends the run at the statement that failed: nothing runs   *)
(* after it.  A failed png write leaves no file written and no message, a  *)
(* failed svg write leaves only the png written and no message, and a      *)
(* failure before the export step leaves no file written.                  *)
(***************************************************************************)
C4_FailureTerminates ==
  /\ [](failed_at # "none" => pc = "failed")
  /\ [](pc = "failed" =>
          /\ stdout = <<>>
          /\ failed_at \notin {"write_svg", "print"} => written = <<>>
          /\ failed_at = "write_svg" =>
               (Len(written) = 1 /\ written[1].file = PNG))
  /\ [][(pc = "failed") => (UNCHANGED vars)]_vars

C4_Witness ==
  /\ pc = "failed"
  /\ failed_at = "write_svg"
  /\ Len(written) = 1

(***************************************************************************)
(* C5: the bar of a task with start week s and duration d has left edge    *)
(* s - 0.5, length d and right edge s + d - 0.5, and so covers exactly the *)
(* weeks s .. s+d-1.                                                       *)
(***************************************************************************)
C5_BarSpansDuration ==
  \A k \in 1..Len(Bars) :
    LET s == tasks_data[k].Start_Week
        d == tasks_data[k].Duration
        b == Bars[k]
    IN /\ b.base = 2 * s - 1
       /\ b.x = 2 * d
       /\ b.base + b.x = 2 * (s + d) - 1
       /\ WeeksInside(b) = s..(s + d - 1)
       /\ WeeksTouched(b) = s..(s + d - 1)

C5_Witness ==
  /\ pc = "done"
  /\ Len(Bars) = Len(tasks_data)
  /\ WeeksInside(Bars[Len(Bars)]) = {6}

(***************************************************************************)
(* C6 as stated: at the export step there is one marker per milestone, at  *)
(* the milestone's week, on the row of the bar of the milestone's task.    *)
(***************************************************************************)
C6_MarkerOnTaskRow ==
  pc \in ExportPhases =>
    /\ Len(Markers) = Len(milestones)
    /\ \A k \in 1..Len(milestones) :
         /\ Markers[k].x = milestones[k].week
         /\ Markers[k].y = CategoryPosition(milestones[k].task)

(***************************************************************************)
(* C7 as stated: at the export step there is one arrow per adjacent task   *)
(* pair, its tail at the right end of the first task's bar on that task's  *)
(* row and its head at the left end of the next task's bar on its row.     *)
(***************************************************************************)
C7_ArrowJoinsBars ==
  pc \in ExportPhases =>
    /\ Len(annotations) = Len(tasks_data) - 1
    /\ \A k \in 1..(Len(tasks_data) - 1) :
         /\ annotations[k].ax = Bars[k].base + Bars[k].x
         /\ annotations[k].ay = CategoryPosition(Bars[k].y)
         /\ annotations[k].x = Bars[k + 1].base
         /\ annotations[k].y = CategoryPosition(Bars[k + 1].y)

(***************************************************************************)
(* C8: once the deduplication loop is over, for every category in use the  *)
(* only bar whose legend entry is shown is the first bar of the category;  *)
(* markers never show one; the legend has one entry per category in use.   *)
(***************************************************************************)
C8_LegendDeduplicated ==
  /\ \A k \in 1..Len(Markers) : ~Markers[k].showlegend
  /\ Phase \notin {"bars", "legend"} =>
       /\ \A c \in CategoriesInUse :
            {k \in 1..Len(Bars) : Bars[k].name = c /\ Bars[k].showlegend}
              = {FirstOfCategory(c)}
       /\ Cardinality({k \in 1..Len(data) : data[k].showlegend})
            = Cardinality(CategoriesInUse)
       /\ {data[k].name : k \in {m \in 1..Len(data) : data[m].showlegend}}
            = CategoriesInUse

C8_Witness ==
  /\ pc = "write_png"
  /\ Len(Markers) = Len(milestones)
  /\ \E k \in 1..Len(Bars) : ~Bars[k].showlegend

(***************************************************************************)
(* C9: no lookup fails: every category is a key of color_map, every        *)
(* milestone names a task, task names are pairwise distinct, and           *)
(* task_positions sends each name to the index of the one task bearing it. *)
(***************************************************************************)
C9_NoLookupFailure ==
  /\ error # "KeyError"
  /\ \A k \in 1..Len(tasks_data) : tasks_data[k].Type \in DOMAIN color_map
  /\ \A k \in 1..Len(milestones) :
       \E m \in 1..Len(tasks_data) : tasks_data[m].Task = milestones[k].task
  /\ \A k, m \in 1..Len(tasks_data) :
       tasks_data[k].Task = tasks_data[m].Task => k = m
  /\ Phase \notin {"bars", "legend"} =>
       /\ DOMAIN task_positions = {tasks_data[k].Task : k \in 1..Len(tasks_data)}
       /\ \A k \in 1..Len(tasks_data) :
            task_positions[tasks_data[k].Task] = k - 1
  /\ Phase \notin {"bars", "legend", "milestones"} =>
       Len(Markers) = Len(milestones)

C9_Witness ==
  /\ pc = "write_png"
  /\ error = "none"
  /\ Len(Bars) = Len(tasks_data)
  /\ Len(Markers) = Len(milestones)

(***************************************************************************)
(* C10: at the export step every bar, every milestone and both ends of     *)
(* every arrow lie within the x range [0.5, 7], and every week a task      *)
(* covers is one of the ticks 1..6.                                        *)
(***************************************************************************)
C10_InsideVisibleRange ==
  pc \in ExportPhases =>
    LET lo == layout.xaxis.range[1]
        hi == layout.xaxis.range[2]
        ticks == {layout.xaxis.tickvals[k] : k \in 1..Len(layout.xaxis.tickvals)}
    IN /\ lo = 1 /\ hi = 14
       /\ ticks = 1..6
       /\ \A k \in 1..Len(Bars) :
            /\ lo <= Bars[k].base
            /\ Bars[k].base + Bars[k].x <= hi
            /\ WeeksTouched(Bars[k]) \subseteq ticks
       /\ \A k \in 1..Len(Markers) : lo <= Markers[k].x /\ Markers[k].x <= hi
       /\ \A k \in 1..Len(annotations) :
            /\ lo <= annotations[k].x /\ annotations[k].x <= hi
            /\ lo <= annotations[k].ax /\ annotations[k].ax <= hi

C10_Witness ==
  /\ pc = "done"
  /\ Len(Bars) = Len(tasks_data)
  /\ Len(Markers) = Len(milestones)
  /\ Len(annotations) = Len(tasks_data) - 1
  /\ \E k \in 1..Len(Markers) : Markers[k].x = 13

====
